---- MODULE Spec2Model ----
(***************************************************************************)
(* A model of the TFSA contribution tracker (src/app.py).                  *)
(*                                                                         *)
(* The program is a Streamlit script: every interaction re-runs the whole  *)
(* script against st.session_state, and at most one button is pressed in a *)
(* run.  One action below is one such run: the form's "Add" button, a      *)
(* delete button, the clear-all flow's three buttons, and the estimator's  *)
(* widgets.                                                                *)
(*                                                                         *)
(* Money is a float number of dollars in the source; here it is an exact   *)
(* integer number of cents, so sums are exact.  The floating notifications *)
(* (fx_queue, prefs), the colours and the charts are presentation and are  *)
(* not modelled.                                                           *)
(***************************************************************************)
EXTENDS Integers, Sequences, FiniteSets, TLC

VARIABLES
    transactions,      \* st.session_state.transactions: list of {id, date, type, amount}
    next_id,           \* st.session_state.next_id
    confirming_clear,  \* st.session_state.confirming_clear
    clear_click_guard, \* st.session_state.clear_click_guard
    ever_contributed,  \* st.session_state.ever_contributed: "No" | "Yes"
    carryover_manual,  \* st.session_state.carryover_manual (cents)
    type_input,        \* st.session_state.type_input
    amount_input,      \* st.session_state.amount_input
    dob,               \* the date-of-birth widget's value, <<year, month, day>>
    today,             \* date.today() / datetime.now(), <<year, month, day>>
    issued,            \* history: the ids handed out so far, in order
    last               \* history: the last run's button, its inputs and what it rendered

vars == <<transactions, next_id, confirming_clear, clear_click_guard,
          ever_contributed, carryover_manual, type_input, amount_input,
          dob, today, issued, last>>

----------------------------------------------------------------------------
(* Bounds of the model *)

\* The form stops being submitted once this many ids have been handed out.
MaxTxns == 3

----------------------------------------------------------------------------
(* Constants of the program *)

CentsPerDollar == 100

LIMITS_BY_YEAR ==
    [y \in 2009..2025 |->
        CASE y \in 2009..2012 -> 5000
          [] y \in 2013..2014 -> 5500
          [] y = 2015         -> 10000
          [] y \in 2016..2018 -> 5500
          [] y \in 2019..2022 -> 6000
          [] y = 2023         -> 6500
          [] OTHER            -> 7000]

\* min_value of the form's date widget
FormMinDate == <<2009, 1, 1>>

----------------------------------------------------------------------------
(* Dates and their text form.  A string is a sequence of character codes. *)

Year(d)  == d[1]
Month(d) == d[2]
Day(d)   == d[3]

DateLeq(a, b) ==
    \/ Year(a) < Year(b)
    \/ Year(a) = Year(b) /\ Month(a) < Month(b)
    \/ Year(a) = Year(b) /\ Month(a) = Month(b) /\ Day(a) <= Day(b)

CharZero == 48
CharDash == 45

\* The character of a decimal digit, and the digit of a character.
Chr(n) == CharZero + n
Digit(c) == c - CharZero

\* %m and %d: two digits, zero-padded.
Pad2(n) == <<Chr((n \div 10) % 10), Chr(n % 10)>>

\* %Y: four digits (every year here has four).
Pad4(n) == <<Chr((n \div 1000) % 10), Chr((n \div 100) % 10), Chr((n \div 10) % 10), Chr(n % 10)>>

\* The number the digit characters s[from..to] denote.
RECURSIVE ParseInt(_, _, _)
ParseInt(s, from, to) ==
    IF to < from THEN 0 ELSE 10 * ParseInt(s, from, to - 1) + Digit(s[to])

\* t_date.strftime("%Y-%m-%d")
strftime(d) == Pad4(Year(d)) \o <<CharDash>> \o Pad2(Month(d)) \o <<CharDash>> \o Pad2(Day(d))

\* pd.to_datetime of a "%Y-%m-%d" string
to_datetime(s) == <<ParseInt(s, 1, 4), ParseInt(s, 6, 7), ParseInt(s, 9, 10)>>

\* .dt.to_period("M").astype(str): "YYYY-MM"
to_period_M(d) == Pad4(Year(d)) \o <<CharDash>> \o Pad2(Month(d))

\* Python's order on strings
RECURSIVE StrLess(_, _)
StrLess(a, b) ==
    IF b = <<>> THEN FALSE
    ELSE IF a = <<>> THEN TRUE
    ELSE IF a[1] # b[1] THEN a[1] < b[1]
    ELSE StrLess(Tail(a), Tail(b))

----------------------------------------------------------------------------
(* Helpers of the program *)

tfsa_start_year_from_dob(d) == IF Year(d) + 18 > 2009 THEN Year(d) + 18 ELSE 2009

current_year_limit(year) ==
    IF year \in DOMAIN LIMITS_BY_YEAR THEN LIMITS_BY_YEAR[year] * CentsPerDollar ELSE 0

\* Mutant: the range stops one year short of through_year.
RECURSIVE SumLimits_exclusive(_, _)
SumLimits_exclusive(from, to) ==
    IF from >= to THEN 0 ELSE current_year_limit(from) + SumLimits_exclusive(from + 1, to)

RECURSIVE SumLimits(_, _)
SumLimits(from, to) ==
    IF from > to THEN 0 ELSE current_year_limit(from) + SumLimits(from + 1, to)

total_room_from_inception(d, through_year) ==
    SumLimits(tfsa_start_year_from_dob(d), through_year)

\* One row of the data frame: the stored record plus the derived columns.
df_row(tx) ==
    LET dt == to_datetime(tx.date) IN
    [id |-> tx.id, date |-> dt, type |-> tx.type, amount |-> tx.amount,
     year |-> Year(dt), month |-> to_period_M(dt)]

df_from_txns(txns) == [i \in 1..Len(txns) |-> df_row(txns[i])]

RECURSIVE SumAmount(_)
SumAmount(df) == IF df = <<>> THEN 0 ELSE df[1].amount + SumAmount(Tail(df))

IsDepositOf(r, year) == r.year = year /\ r.type = "deposit"

\* Mutant: a withdrawal of the year gives its room back.
current_year_deposits_net(df, year) ==
    SumAmount(SelectSeq(df, LAMBDA r : IsDepositOf(r, year)))
        - SumAmount(SelectSeq(df, LAMBDA r : r.year = year /\ r.type = "withdrawal"))

current_year_deposits(df, year) ==
    SumAmount(SelectSeq(df, LAMBDA r : IsDepositOf(r, year)))

IsType(r, type) == r.type = type

lifetime_balance(df) ==
    SumAmount(SelectSeq(df, LAMBDA r : IsType(r, "deposit")))
        - SumAmount(SelectSeq(df, LAMBDA r : IsType(r, "withdrawal")))

Max0(x) == IF x > 0 THEN x ELSE 0

----------------------------------------------------------------------------
(* The script's top: the estimator and the top metrics *)

current_year == Year(today)

estimated_room_total ==
    IF ever_contributed = "No"
    THEN total_room_from_inception(dob, current_year)
    ELSE carryover_manual + current_year_limit(current_year)

carryover_prior ==
    IF ever_contributed = "No"
    THEN estimated_room_total - current_year_limit(current_year)
    ELSE carryover_manual

\* The breakdown's "Total room (carryover + limit)".
total_room_this_year ==
    IF ever_contributed = "Yes"
    THEN carryover_prior + current_year_limit(current_year)
    ELSE IF current_year > 2009
         THEN total_room_from_inception(dob, current_year)
                  - total_room_from_inception(dob, current_year - 1) + carryover_prior
         ELSE current_year_limit(current_year)

deposits_ytd == current_year_deposits(df_from_txns(transactions), current_year)

room_left == Max0(estimated_room_total - deposits_ytd)

----------------------------------------------------------------------------
(* The inputs the model draws *)

\* date.today() of the session
Todays == {<<2025, 12, 31>>}

\* values of the date-of-birth widget (the first is its default)
DobDefault == <<1990, 1, 1>>
Dobs == {DobDefault, <<2007, 6, 15>>}

\* values of the form's date widget, kept to min_value..max_value by the guard
FormDates == {<<2024, 12, 31>>, <<2025, 1, 31>>, <<2025, 2, 1>>}

\* values of the form's amount widget (cents; min_value=0.0)
FormAmounts == {0, 1, 700000}

\* values of the manual carryover widget (cents; min_value=0.0)
CarryoverChoices == {0, 700000}

Kinds == {"deposit", "withdrawal"}

----------------------------------------------------------------------------
(* What a run leaves on the page, kept as history *)

Rendered(op) ==
    [op |-> op, date |-> <<>>, kind |-> "", amount |-> 0,
     outcome |-> "", shown |-> 0, id |-> 0, count |-> 0]

SubmitRendered(t_date, kind, t_amount, outcome, shown) ==
    [Rendered("submit") EXCEPT !.date = t_date, !.kind = kind, !.amount = t_amount,
                               !.outcome = outcome, !.shown = shown]

----------------------------------------------------------------------------
(* Session defaults *)

Init ==
    /\ transactions = <<>>
    /\ next_id = 1
    /\ confirming_clear = FALSE
    /\ clear_click_guard = FALSE
    /\ ever_contributed = "No"
    /\ carryover_manual = 0
    /\ type_input = "deposit"
    /\ amount_input = 0
    /\ dob = DobDefault
    /\ today \in Todays
    /\ issued = <<>>
    /\ last = Rendered("init")

----------------------------------------------------------------------------
(* The estimator's widgets *)

SetDob(d) ==
    /\ DateLeq(<<1900, 1, 1>>, d) /\ DateLeq(d, today)
    /\ dob' = d
    /\ last' = Rendered("configure")
    /\ UNCHANGED <<transactions, next_id, confirming_clear, clear_click_guard,
                   ever_contributed, carryover_manual, type_input, amount_input,
                   today, issued>>

SetEverContributed(v) ==
    /\ ever_contributed' = v
    /\ last' = Rendered("configure")
    /\ UNCHANGED <<transactions, next_id, confirming_clear, clear_click_guard,
                   carryover_manual, type_input, amount_input, dob, today, issued>>

\* The number input is on the page only when the answer is "Yes".
SetCarryoverManual(c) ==
    /\ ever_contributed = "Yes"
    /\ c >= 0
    /\ carryover_manual' = c
    /\ last' = Rendered("configure")
    /\ UNCHANGED <<transactions, next_id, confirming_clear, clear_click_guard,
                   ever_contributed, type_input, amount_input, dob, today, issued>>

----------------------------------------------------------------------------
(* The form: "Add" *)

\* Mutant: the carryover is added for a backdated year as well.
allowed_room_carry_everywhere(df_all, t_date) ==
    LET deposit_year       == Year(t_date)
        deposits_that_year == current_year_deposits(df_all, deposit_year)
        year_limit         == current_year_limit(deposit_year)
        base_carry         == IF ever_contributed = "No" THEN carryover_prior
                                                         ELSE carryover_manual
    IN  Max0(base_carry + year_limit - deposits_that_year)

\* Mutant: the deposits already made in the year are not counted.
allowed_room_ignores_deposits(df_all, t_date) ==
    LET deposit_year == Year(t_date)
        year_limit   == current_year_limit(deposit_year)
        base_carry   == IF ever_contributed = "No" THEN carryover_prior
                                                   ELSE carryover_manual
    IN  IF deposit_year = current_year
        THEN Max0(base_carry + year_limit)
        ELSE Max0(year_limit)

\* The room a deposit dated t_date is checked against.
allowed_room(df_all, t_date) ==
    LET deposit_year       == Year(t_date)
        deposits_that_year == current_year_deposits(df_all, deposit_year)
        year_limit         == current_year_limit(deposit_year)
        base_carry         == IF ever_contributed = "No" THEN carryover_prior
                                                         ELSE carryover_manual
    IN  IF deposit_year = current_year
        THEN Max0(base_carry + year_limit - deposits_that_year)
        ELSE Max0(year_limit - deposits_that_year)

\* Mutant: the boundary is exclusive.
deposit_exceeds_room_exclusive(t_amount, room) == t_amount >= room

deposit_exceeds_room(t_amount, room) == t_amount > room

\* Mutant: the boundary is exclusive.
withdrawal_exceeds_balance_exclusive(t_amount, bal) == t_amount >= bal

withdrawal_exceeds_balance(t_amount, bal) == t_amount > bal

\* Mutant: the withdrawal's record is the deposit's, copied with its type.
new_txn_always_deposit(id, t_date, type, t_amount) ==
    [id |-> id, date |-> strftime(t_date), type |-> "deposit", amount |-> t_amount]

new_txn(id, t_date, type, t_amount) ==
    [id |-> id, date |-> strftime(t_date), type |-> type, amount |-> t_amount]

\* Mutant: the counter moves on before the validation, so a rejection uses up an id.
Rejected_uses_id(t_date, kind, t_amount, outcome, shown) ==
    /\ last' = SubmitRendered(t_date, kind, t_amount, outcome, shown)
    /\ next_id' = next_id + 1
    /\ UNCHANGED <<transactions, amount_input, issued>>

\* A failed validation: st.error, nothing stored.
Rejected(t_date, kind, t_amount, outcome, shown) ==
    /\ last' = SubmitRendered(t_date, kind, t_amount, outcome, shown)
    /\ UNCHANGED <<transactions, next_id, amount_input, issued>>

\* Mutant: the counter moves on first, and the record takes the id after it.
Accepted_id_after_increment(t_date, kind, t_amount, shown) ==
    /\ transactions' = Append(transactions, new_txn(next_id + 1, t_date, kind, t_amount))
    /\ next_id' = next_id + 1
    /\ amount_input' = 0
    /\ issued' = Append(issued, next_id)
    /\ last' = SubmitRendered(t_date, kind, t_amount, "accepted", shown)

\* A passed validation: the record is appended and the counter moves on.
Accepted(t_date, kind, t_amount, shown) ==
    /\ transactions' = Append(transactions, new_txn(next_id, t_date, kind, t_amount))
    /\ next_id' = next_id + 1
    /\ amount_input' = 0
    /\ issued' = Append(issued, next_id)
    /\ last' = SubmitRendered(t_date, kind, t_amount, "accepted", shown)

Submit(t_date, kind, t_amount) ==
    /\ next_id <= MaxTxns
    /\ DateLeq(FormMinDate, t_date) /\ DateLeq(t_date, today)
    /\ t_amount >= 0
    /\ type_input' = kind
    /\ UNCHANGED <<confirming_clear, clear_click_guard, ever_contributed,
                   carryover_manual, dob, today>>
    /\ LET df_all == df_from_txns(transactions)
           room   == allowed_room(df_all, t_date)
           bal    == lifetime_balance(df_all)
       IN  IF t_amount <= 0
           THEN Rejected(t_date, kind, t_amount, "InvalidAmount", 0)
           ELSE IF kind = "deposit"
           THEN IF deposit_exceeds_room(t_amount, room)
                THEN Rejected(t_date, kind, t_amount, "InsufficientRoom", room)
                ELSE Accepted(t_date, kind, t_amount, room)
           ELSE IF withdrawal_exceeds_balance(t_amount, bal)
                THEN Rejected(t_date, kind, t_amount, "InsufficientBalance", bal)
                ELSE Accepted(t_date, kind, t_amount, bal)

----------------------------------------------------------------------------
(* The clear-all flow *)

Bomb ==
    /\ ~confirming_clear
    /\ confirming_clear' = TRUE
    /\ last' = Rendered("bomb")
    /\ UNCHANGED <<transactions, next_id, clear_click_guard, ever_contributed,
                   carryover_manual, type_input, amount_input, dob, today, issued>>

\* Mutant: clearing starts the ids again.
ConfirmYes_resets_ids ==
    /\ confirming_clear
    /\ ~clear_click_guard
    /\ transactions' = <<>>
    /\ next_id' = 1
    /\ confirming_clear' = FALSE
    /\ clear_click_guard' = FALSE
    /\ last' = [Rendered("confirm_yes") EXCEPT !.count = Len(transactions)]
    /\ UNCHANGED <<ever_contributed, carryover_manual, type_input,
                   amount_input, dob, today, issued>>

\* Mutant: the guard is raised and never lowered.
ConfirmYes_keeps_guard ==
    /\ confirming_clear
    /\ ~clear_click_guard
    /\ transactions' = <<>>
    /\ confirming_clear' = FALSE
    /\ clear_click_guard' = TRUE
    /\ last' = [Rendered("confirm_yes") EXCEPT !.count = Len(transactions)]
    /\ UNCHANGED <<next_id, ever_contributed, carryover_manual, type_input,
                   amount_input, dob, today, issued>>

\* "Yes, delete all": the guard is raised and lowered within the one run.
ConfirmYes ==
    /\ confirming_clear
    /\ ~clear_click_guard
    /\ transactions' = <<>>
    /\ confirming_clear' = FALSE
    /\ clear_click_guard' = FALSE
    /\ last' = [Rendered("confirm_yes") EXCEPT !.count = Len(transactions)]
    /\ UNCHANGED <<next_id, ever_contributed, carryover_manual, type_input,
                   amount_input, dob, today, issued>>

\* Mutant: "No" leaves the confirmation open.
ConfirmNo_stays_open ==
    /\ confirming_clear
    /\ last' = Rendered("confirm_no")
    /\ UNCHANGED <<transactions, next_id, confirming_clear, clear_click_guard,
                   ever_contributed, carryover_manual, type_input, amount_input,
                   dob, today, issued>>

\* "No, keep them"
ConfirmNo ==
    /\ confirming_clear
    /\ confirming_clear' = FALSE
    /\ last' = Rendered("confirm_no")
    /\ UNCHANGED <<transactions, next_id, clear_click_guard, ever_contributed,
                   carryover_manual, type_input, amount_input, dob, today, issued>>

----------------------------------------------------------------------------
(* The logged transactions: one delete button per row *)

\* Mutant: the comparison keeps only the older records.
HasOlderId(tx, id) == tx.id < id

HasOtherId(tx, id) == tx.id # id

without_id(txns, id) == SelectSeq(txns, LAMBDA tx : HasOtherId(tx, id))

Delete(id) ==
    /\ \E i \in 1..Len(transactions) : df_from_txns(transactions)[i].id = id
    /\ transactions' = without_id(transactions, id)
    /\ last' = [Rendered("delete") EXCEPT !.id = id]
    /\ UNCHANGED <<next_id, confirming_clear, clear_click_guard, ever_contributed,
                   carryover_manual, type_input, amount_input, dob, today, issued>>

----------------------------------------------------------------------------
(* The monthly summary *)

\* Mutant: the year filter is forgotten.
df_curr_all_years(df, year) == df

df_curr(df, year) == SelectSeq(df, LAMBDA r : r.year = year)

MonthKeys(df) == {df[i].month : i \in 1..Len(df)}

\* The keys in ascending order, as groupby leaves them.
RECURSIVE SortedKeys(_)
SortedKeys(S) ==
    IF S = {} THEN <<>>
    ELSE LET m == CHOOSE x \in S : \A y \in S \ {x} : StrLess(x, y)
         IN  <<m>> \o SortedKeys(S \ {m})

\* Mutant: the month's rows are added up whatever their type.
GroupSum_any_type(df, month, type) ==
    SumAmount(SelectSeq(df, LAMBDA r : r.month = month))

GroupSum(df, month, type) ==
    SumAmount(SelectSeq(df, LAMBDA r : r.month = month /\ r.type = type))

\* groupby(["month", "type"]).sum().unstack().reindex(...).fillna(0.0).reset_index()
monthly(df_all, year) ==
    LET cur  == df_curr(df_all, year)
        keys == SortedKeys(MonthKeys(cur))
    IN  [k \in 1..Len(keys) |->
            [month      |-> keys[k],
             deposit    |-> GroupSum(cur, keys[k], "deposit"),
             withdrawal |-> GroupSum(cur, keys[k], "withdrawal")]]

----------------------------------------------------------------------------
(* The summary's derived columns. The script's table stops at the deposit  *)
(* and withdrawal totals of each month; the two columns below follow the   *)
(* aggregator of the specification, section 4.5, over that table.          *)

\* The total room the caller supplies for a year.
total_room_for(year) ==
    IF year = current_year THEN estimated_room_total ELSE current_year_limit(year)

\* The running sum of the deposit totals of rows 1..k.
RECURSIVE cumulative_contribution(_, _)
cumulative_contribution(rows, k) ==
    IF k = 0 THEN 0 ELSE cumulative_contribution(rows, k - 1) + rows[k].deposit

room_remaining(rows, k, year) ==
    Max0(total_room_for(year) - cumulative_contribution(rows, k))

MonthlySummary(df_all, year) ==
    LET rows == monthly(df_all, year)
    IN  [k \in 1..Len(rows) |->
            [month                   |-> rows[k].month,
             deposits_total          |-> rows[k].deposit,
             withdrawals_total       |-> rows[k].withdrawal,
             net_contribution        |-> rows[k].deposit,
             cumulative_contribution |-> cumulative_contribution(rows, k),
             room_remaining          |-> room_remaining(rows, k, year)]]

----------------------------------------------------------------------------
(* The specification *)

Next ==
    \/ \E d \in Dobs : SetDob(d)
    \/ \E v \in {"No", "Yes"} : SetEverContributed(v)
    \/ \E c \in CarryoverChoices : SetCarryoverManual(c)
    \/ \E t_date \in FormDates, kind \in Kinds, t_amount \in FormAmounts :
           Submit(t_date, kind, t_amount)
    \/ Bomb
    \/ ConfirmYes
    \/ ConfirmNo
    \/ \E id \in 1..MaxTxns : Delete(id)

Spec == Init /\ [][Next]_vars

----------------------------------------------------------------------------
(* The vocabulary of the claims, over the stored log itself *)

limit_for(y) == IF y \in 2009..2025 THEN LIMITS_BY_YEAR[y] * CentsPerDollar ELSE 0

first_eligible_year(b) == IF Year(b) + 18 >= 2009 THEN Year(b) + 18 ELSE 2009

RECURSIVE LimitsFrom(_, _)
LimitsFrom(y, through_year) ==
    IF y > through_year THEN 0 ELSE limit_for(y) + LimitsFrom(y + 1, through_year)

room_from_inception(b, through_year) == LimitsFrom(first_eligible_year(b), through_year)

StoredYear(tx) == Year(to_datetime(tx.date))

\* The sum of the amounts of the stored records of one kind, dated in one of the years.
RECURSIVE TotalOf(_, _, _)
TotalOf(txns, kind, years) ==
    IF txns = <<>> THEN 0
    ELSE (IF txns[1].type = kind /\ StoredYear(txns[1]) \in years THEN txns[1].amount ELSE 0)
         + TotalOf(Tail(txns), kind, years)

AllYears == 1900..2100

deposits_in_year(txns, y) == TotalOf(txns, "deposit", {y})

withdrawals_in_year(txns, y) == TotalOf(txns, "withdrawal", {y})

balance_of(txns) == TotalOf(txns, "deposit", AllYears) - TotalOf(txns, "withdrawal", AllYears)

carryover_basis ==
    IF ever_contributed = "Yes" THEN carryover_manual
    ELSE room_from_inception(dob, current_year) - limit_for(current_year)

Ledger == <<transactions, next_id, issued>>

Configuration == <<ever_contributed, carryover_manual, dob, today>>

\* The step just taken was an "Add" of this kind with a positive amount.
AddedPositive(kind) ==
    last'.op = "submit" /\ last'.kind = kind /\ last'.amount > 0

----------------------------------------------------------------------------
\* The room of a current-year deposit, from the log as stored.
C1_Room == Max0(carryover_basis + limit_for(current_year)
                    - deposits_in_year(transactions, current_year))

(* C1: a deposit dated in the current year with a positive amount is       *)
(* accepted if and only if its amount is at most                           *)
(* max(0, carryover_basis + limit_for(current_year) - deposits_in_year),   *)
(* computed over the log before the deposit; the bound is inclusive, and   *)
(* a rejection reports that room.                                          *)

C1_CurrentYearDeposit ==
    [][ (AddedPositive("deposit") /\ Year(last'.date) = current_year)
          => /\ (last'.outcome = "accepted") <=> (last'.amount <= C1_Room)
             /\ (last'.outcome # "accepted") <=> (last'.outcome = "InsufficientRoom")
             /\ last'.shown = C1_Room
             /\ (last'.outcome = "accepted") <=> (Len(transactions') = Len(transactions) + 1)
      ]_vars

\* A current-year deposit of exactly the allowed room was accepted.
C1_Witness ==
    /\ last.op = "submit" /\ last.kind = "deposit" /\ last.outcome = "accepted"
    /\ Year(last.date) = current_year
    /\ last.amount = last.shown

\* A current-year deposit of the allowed room plus one cent was rejected.
C1_WitnessOver ==
    /\ last.op = "submit" /\ last.kind = "deposit" /\ last.outcome = "InsufficientRoom"
    /\ Year(last.date) = current_year
    /\ last.amount = last.shown + 1

----------------------------------------------------------------------------
(* C2: a withdrawal with a positive amount is accepted if and only if its  *)
(* amount is at most the lifetime balance (all deposits minus all          *)
(* withdrawals of the log before it), whatever its date and the room of    *)
(* its year; a rejection reports that balance.                             *)

C2_Withdrawal ==
    [][ AddedPositive("withdrawal")
          => /\ (last'.outcome = "accepted") <=> (last'.amount <= balance_of(transactions))
             /\ (last'.outcome # "accepted") <=> (last'.outcome = "InsufficientBalance")
             /\ last'.shown = balance_of(transactions)
             /\ (last'.outcome = "accepted") <=> (Len(transactions') = Len(transactions) + 1)
      ]_vars

\* A backdated withdrawal of exactly the balance was accepted.
C2_Witness ==
    /\ last.op = "submit" /\ last.kind = "withdrawal" /\ last.outcome = "accepted"
    /\ Year(last.date) # current_year
    /\ last.amount = last.shown

\* A withdrawal of the balance plus one cent was rejected.
C2_WitnessOver ==
    /\ last.op = "submit" /\ last.kind = "withdrawal"
    /\ last.outcome = "InsufficientBalance"
    /\ last.amount = last.shown + 1

----------------------------------------------------------------------------
\* The room of a deposit backdated to year y, from the log as stored.
C3_Room(y) == Max0(limit_for(y) - deposits_in_year(transactions, y))

(* C3: a deposit dated in a year Y other than the current year is checked  *)
(* against max(0, limit_for(Y) - deposits_in_year(Y)) only: no carryover,  *)
(* declared or inferred, is added for a backdated year.                    *)

C3_BackdatedDeposit ==
    [][ (AddedPositive("deposit") /\ Year(last'.date) # current_year)
          => /\ (last'.outcome = "accepted") <=> (last'.amount <= C3_Room(Year(last'.date)))
             /\ (last'.outcome # "accepted") <=> (last'.outcome = "InsufficientRoom")
             /\ last'.shown = C3_Room(Year(last'.date))
      ]_vars

\* A backdated deposit was rejected that the carryover would have covered.
C3_Witness ==
    /\ last.op = "submit" /\ last.kind = "deposit" /\ last.outcome = "InsufficientRoom"
    /\ Year(last.date) # current_year
    /\ carryover_basis > 0
    /\ last.amount <= carryover_basis + last.shown

----------------------------------------------------------------------------
\* The ids handed out and stored, against the counter.
C4_IdsInOrder ==
    /\ \A i, j \in 1..Len(issued) : i < j => issued[i] < issued[j]
    /\ \A i \in 1..Len(issued) : issued[i] < next_id
    /\ \A i \in 1..Len(transactions) :
           \E j \in 1..Len(issued) : issued[j] = transactions[i].id
    /\ \A i, j \in 1..Len(transactions) :
           i # j => transactions[i].id # transactions[j].id

(* C4: over every sequence of adds, deletes by id and clear-alls, the ids  *)
(* handed out are pairwise distinct and strictly increasing in the order   *)
(* they were handed out, every stored id is one of them, and the counter   *)
(* stays above them all and never decreases: no id is reused after a       *)
(* delete or a clear.                                                      *)

C4_MonotonicIds == [] C4_IdsInOrder /\ [][next_id' >= next_id]_vars

\* A clear-all of a non-empty log has left the counter above every id handed out,
\* with room for a further id.
C4_Witness ==
    /\ last.op = "confirm_yes" /\ last.count > 0
    /\ transactions = <<>>
    /\ Len(issued) > 0 /\ next_id = issued[Len(issued)] + 1
    /\ next_id <= MaxTxns

----------------------------------------------------------------------------
(* C5: in every reachable state the bound a proposed amount is compared    *)
(* against is never negative: the room of a deposit and the lifetime       *)
(* balance of a withdrawal are both >= 0.                                  *)

C5_NonNegativeBounds ==
    /\ \A d \in FormDates : allowed_room(df_from_txns(transactions), d) >= 0
    /\ lifetime_balance(df_from_txns(transactions)) >= 0
    /\ (last.op = "submit" /\ last.amount > 0) => last.shown >= 0

----------------------------------------------------------------------------
\* deposits_ytd and room_left as the script's top computes them, over a given log.
C6_DepositsYtd(txns) == current_year_deposits(df_from_txns(txns), current_year)

C6_RoomLeft(txns) == Max0(estimated_room_total - C6_DepositsYtd(txns))

(* C6: an accepted withdrawal never restores same-year room: across it     *)
(* deposits_in_year(current_year) is unchanged and the room left for the   *)
(* current year, max(0, total room - deposits of the year), does not       *)
(* increase.                                                               *)

C6_WithdrawalKeepsRoom ==
    [][ (AddedPositive("withdrawal") /\ last'.outcome = "accepted")
          => /\ deposits_in_year(transactions', current_year)
                    = deposits_in_year(transactions, current_year)
             /\ C6_DepositsYtd(transactions') = C6_DepositsYtd(transactions)
             /\ C6_RoomLeft(transactions') <= C6_RoomLeft(transactions)
             /\ C6_RoomLeft(transactions')
                    = Max0(estimated_room_total
                             - deposits_in_year(transactions', current_year))
             /\ Configuration' = Configuration
      ]_vars

\* A withdrawal dated in the current year was accepted after deposits of that year.
C6_Witness ==
    /\ last.op = "submit" /\ last.kind = "withdrawal" /\ last.outcome = "accepted"
    /\ Year(last.date) = current_year
    /\ deposits_ytd > 0
    /\ room_left < estimated_room_total

----------------------------------------------------------------------------
(* C7: a rejected proposal leaves the ledger unchanged: an amount <= 0 is  *)
(* rejected first, for both kinds, and after a rejection for an invalid    *)
(* amount, insufficient room or insufficient balance the log and the id    *)
(* counter are what they were.                                             *)

C7_RejectionKeepsLedger ==
    [][ last'.op = "submit"
          => /\ last'.amount <= 0 => last'.outcome = "InvalidAmount"
             /\ last'.outcome \in {"accepted", "InvalidAmount",
                                   "InsufficientRoom", "InsufficientBalance"}
             /\ last'.outcome # "accepted"
                    => /\ transactions' = transactions
                       /\ next_id' = next_id
                       /\ issued' = issued
      ]_vars

\* A withdrawal was rejected against a log that holds records.
C7_Witness ==
    /\ last.op = "submit" /\ last.outcome = "InsufficientBalance"
    /\ Len(transactions) >= 2

\* A zero amount was rejected against a log that holds records.
C7_WitnessInvalid ==
    /\ last.op = "submit" /\ last.outcome = "InvalidAmount"
    /\ Len(transactions) >= 1

\* A deposit was rejected for room against a log that holds records.
C7_WitnessRoom ==
    /\ last.op = "submit" /\ last.outcome = "InsufficientRoom"
    /\ Len(transactions) >= 1

----------------------------------------------------------------------------
\* The log without its i-th record.
RemoveAt(txns, i) == SubSeq(txns, 1, i - 1) \o SubSeq(txns, i + 1, Len(txns))

StoredIds(txns) == {txns[i].id : i \in 1..Len(txns)}

(* C8: deleting by id removes exactly the record with that id: the others  *)
(* keep their fields and their order, the counter is unchanged, and for an *)
(* id no stored record has, the removal changes nothing (so removing the   *)
(* same id twice is removing it once).                                     *)

C8_DeleteExactlyOne ==
    [][ /\ last'.op = "delete"
            => /\ \E i \in 1..Len(transactions) :
                      /\ transactions[i].id = last'.id
                      /\ transactions' = RemoveAt(transactions, i)
               /\ next_id' = next_id
               /\ issued' = issued
               /\ without_id(transactions', last'.id) = transactions'
        /\ \A id \in (1..MaxTxns) \ StoredIds(transactions') :
               without_id(transactions', id) = transactions'
      ]_vars

\* The middle record of three was deleted: two others remain, in order.
C8_Witness ==
    /\ last.op = "delete"
    /\ Len(transactions) = 2
    /\ transactions[1].id < last.id /\ last.id < transactions[2].id

----------------------------------------------------------------------------
(* C9: clear-all is idempotent: it leaves an empty log, the same counter   *)
(* and the same eligibility configuration, with the confirmation closed,   *)
(* and applied to a log that is already empty it leaves the counter, the   *)
(* configuration and the empty log as they were; the confirm button is     *)
(* never disabled, so neither call fails.                                  *)

C9_ClearIdempotent ==
    /\ [] (confirming_clear => ENABLED ConfirmYes)
    /\ [][ last'.op = "confirm_yes"
             => /\ transactions' = <<>>
                /\ next_id' = next_id
                /\ Configuration' = Configuration
                /\ ~confirming_clear' /\ ~clear_click_guard'
                /\ transactions = <<>> => Ledger' = Ledger
         ]_vars

\* A clear-all was confirmed on a log an earlier removal had already emptied.
C9_Witness ==
    /\ last.op = "confirm_yes" /\ last.count = 0
    /\ next_id > 1
    /\ transactions = <<>>

----------------------------------------------------------------------------
\* The total of one column of the summary.
RECURSIVE SumColumn(_, _)
SumColumn(rows, col) ==
    IF rows = <<>> THEN 0 ELSE rows[1][col] + SumColumn(Tail(rows), col)

C10_Summary == monthly(df_from_txns(transactions), current_year)

(* C10: aggregation additivity: for every reachable log and the summarized *)
(* (current) year, the monthly deposit totals add up to the deposits of    *)
(* the year, the monthly withdrawal totals to its withdrawals, and every   *)
(* record dated in the year is counted in exactly one month.               *)

C10_Additivity ==
    /\ SumColumn(C10_Summary, "deposit") = deposits_in_year(transactions, current_year)
    /\ SumColumn(C10_Summary, "deposit") = deposits_ytd
    /\ SumColumn(C10_Summary, "withdrawal") = withdrawals_in_year(transactions, current_year)
    /\ \A i \in 1..Len(transactions) :
           StoredYear(transactions[i]) = current_year
               => Cardinality({k \in 1..Len(C10_Summary) :
                      C10_Summary[k].month = to_period_M(to_datetime(transactions[i].date))}) = 1
    /\ \A k \in 1..Len(C10_Summary) :
           \E i \in 1..Len(transactions) :
               /\ StoredYear(transactions[i]) = current_year
               /\ C10_Summary[k].month = to_period_M(to_datetime(transactions[i].date))

\* The log holds records of two months of the year and one of another year.
C10_Witness ==
    /\ Len(C10_Summary) = 2
    /\ \E i \in 1..Len(transactions) : StoredYear(transactions[i]) # current_year
    /\ SumColumn(C10_Summary, "deposit") > 0

----------------------------------------------------------------------------
(* The estimator on its own: the widgets above the form, and the room      *)
(* function applied to the birth date and a year.                          *)

\* date.today() of a session, this year or a later one
EstimatorTodays == {<<2025, 12, 31>>, <<2026, 1, 1>>}

\* values of the date-of-birth widget: first eligible years 2009 (the floor) to 2030
EstimatorDobs == {<<y, 1, 1>> : y \in 1985..2012}

\* through_year arguments: before the program's start, configured, and past the table
ThroughYears == 2005..2030

InitEstimator ==
    /\ transactions = <<>>
    /\ next_id = 1
    /\ confirming_clear = FALSE
    /\ clear_click_guard = FALSE
    /\ ever_contributed = "No"
    /\ carryover_manual = 0
    /\ type_input = "deposit"
    /\ amount_input = 0
    /\ dob = DobDefault
    /\ today \in EstimatorTodays
    /\ issued = <<>>
    /\ last = Rendered("init")

\* total_room_from_inception(dob, through_year), as the script calls it
RoomThrough(through_year) ==
    /\ last' = [op |-> "room", dob |-> dob, through_year |-> through_year,
                total |-> total_room_from_inception(dob, through_year)]
    /\ UNCHANGED <<transactions, next_id, confirming_clear, clear_click_guard,
                   ever_contributed, carryover_manual, type_input, amount_input,
                   dob, today, issued>>

NextEstimator ==
    \/ \E d \in EstimatorDobs : SetDob(d)
    \/ \E v \in {"No", "Yes"} : SetEverContributed(v)
    \/ \E c \in CarryoverChoices : SetCarryoverManual(c)
    \/ \E t \in ThroughYears : RoomThrough(t)

SpecEstimator == InitEstimator /\ [][NextEstimator]_vars

----------------------------------------------------------------------------
\* The limits of the table, added up year by year.
RECURSIVE TableTotal(_)
TableTotal(years) ==
    IF years = {} THEN 0
    ELSE LET y == CHOOSE x \in years : TRUE
         IN  LIMITS_BY_YEAR[y] * CentsPerDollar + TableTotal(years \ {y})

(* C11: for every birth date and through_year the room from inception is   *)
(* the sum of limit_for(y) for y from max(birth year + 18, 2009) through    *)
(* through_year, limit_for being 0 for a year the table does not hold; it   *)
(* is 0 when through_year is before the first eligible year, and for a      *)
(* first eligible year of 2009 and through_year 2025 it is the sum of all   *)
(* the configured limits ($102,000).                                        *)

C11_RoomFromInception ==
    last.op = "room"
        => /\ last.total = room_from_inception(last.dob, last.through_year)
           /\ last.through_year < first_eligible_year(last.dob) => last.total = 0
           /\ (first_eligible_year(last.dob) = 2009 /\ last.through_year = 2025)
                  => /\ last.total = TableTotal(DOMAIN LIMITS_BY_YEAR)
                     /\ last.total = 102000 * CentsPerDollar
           /\ (Year(last.dob) + 18 >= 2009)
                  => first_eligible_year(last.dob) = Year(last.dob) + 18
           /\ (Year(last.dob) + 18 < 2009) => first_eligible_year(last.dob) = 2009

\* The room of someone eligible since 2009, through 2025.
C11_Witness ==
    /\ last.op = "room"
    /\ Year(last.dob) + 18 < 2009
    /\ last.through_year = 2025
    /\ last.total = 102000 * CentsPerDollar

\* The room through a year before the first eligible year.
C11_WitnessEmpty ==
    /\ last.op = "room"
    /\ Year(last.dob) + 18 > last.through_year
    /\ last.through_year >= 2009
    /\ last.total = 0

----------------------------------------------------------------------------
(* A session of 2025 with a declared carryover of $93,000: the total room  *)
(* is $100,000.                                                            *)

ScenarioCarryovers == {0, 93000 * CentsPerDollar}

ScenarioDates == {<<2025, 1, 15>>}

ScenarioAmounts == {5000 * CentsPerDollar, 6000 * CentsPerDollar, 95001 * CentsPerDollar}

NextScenario ==
    \/ \E v \in {"No", "Yes"} : SetEverContributed(v)
    \/ \E c \in ScenarioCarryovers : SetCarryoverManual(c)
    \/ \E d \in ScenarioDates, k \in Kinds, a \in ScenarioAmounts : Submit(d, k, a)

SpecScenario == Init /\ [][NextScenario]_vars

\* The configuration of the scenario: current year 2025, total room $100,000.
C12_Configured ==
    /\ current_year = 2025
    /\ ever_contributed = "Yes"
    /\ estimated_room_total = 100000 * CentsPerDollar

\* The store holds the $5,000 deposit of January 2025 and nothing else.
C12_OnlyFirstDeposit(txns) ==
    /\ Len(txns) = 1
    /\ txns[1].type = "deposit"
    /\ txns[1].amount = 5000 * CentsPerDollar
    /\ to_datetime(txns[1].date) = <<2025, 1, 15>>

C12_Asked(r, kind, dollars) ==
    /\ r.op = "submit"
    /\ r.kind = kind
    /\ r.amount = dollars * CentsPerDollar
    /\ r.date = <<2025, 1, 15>>

(* C12: with current year 2025, an empty store and a total room of         *)
(* $100,000, a deposit of $5,000 dated January 2025 is accepted and leaves  *)
(* $95,000 of room; after it a withdrawal of $6,000 is rejected for         *)
(* insufficient balance with $5,000 available, a deposit of $95,001 is      *)
(* rejected for insufficient room with $95,000 allowed, and the store       *)
(* still holds only the first deposit.                                      *)

C12_EndToEnd ==
    [][ /\ (C12_Configured /\ transactions = <<>> /\ C12_Asked(last', "deposit", 5000))
            => /\ last'.outcome = "accepted"
               /\ C12_OnlyFirstDeposit(transactions')
               /\ C6_RoomLeft(transactions') = 95000 * CentsPerDollar
        /\ (C12_Configured /\ C12_OnlyFirstDeposit(transactions)
                /\ C12_Asked(last', "withdrawal", 6000))
            => /\ last'.outcome = "InsufficientBalance"
               /\ last'.shown = 5000 * CentsPerDollar
               /\ transactions' = transactions
        /\ (C12_Configured /\ C12_OnlyFirstDeposit(transactions)
                /\ C12_Asked(last', "deposit", 95001))
            => /\ last'.outcome = "InsufficientRoom"
               /\ last'.shown = 95000 * CentsPerDollar
               /\ transactions' = transactions
      ]_vars

\* The $95,001 deposit was just rejected and the store holds the first deposit only.
C12_Witness ==
    /\ C12_Configured
    /\ C12_OnlyFirstDeposit(transactions)
    /\ C12_Asked(last, "deposit", 95001)
    /\ last.outcome = "InsufficientRoom"
    /\ last.shown = 95000 * CentsPerDollar
    /\ room_left = 95000 * CentsPerDollar

\* The $6,000 withdrawal was just rejected.
C12_WitnessWithdrawal ==
    /\ C12_Configured
    /\ C12_OnlyFirstDeposit(transactions)
    /\ C12_Asked(last, "withdrawal", 6000)
    /\ last.outcome = "InsufficientBalance"
    /\ last.shown = 5000 * CentsPerDollar

----------------------------------------------------------------------------
\* The years a summary is asked for.
C13_Years == {2024, 2025}

C13_Summary(y) == MonthlySummary(df_from_txns(transactions), y)

\* The calendar month a row stands for, as year * 12 + month.
C13_MonthOf(key) == ParseInt(key, 1, 4) * 12 + ParseInt(key, 6, 7)

\* The deposits stored for year y dated in or before the calendar month m.
RECURSIVE C13_DepositsUpTo(_, _, _)
C13_DepositsUpTo(txns, y, m) ==
    IF txns = <<>> THEN 0
    ELSE LET d == to_datetime(txns[1].date)
         IN  (IF txns[1].type = "deposit" /\ Year(d) = y /\ Year(d) * 12 + Month(d) <= m
              THEN txns[1].amount ELSE 0)
             + C13_DepositsUpTo(Tail(txns), y, m)

C13_TotalRoom(y) ==
    IF y = current_year THEN carryover_basis + limit_for(y) ELSE limit_for(y)

(* C13: the monthly summary of a year lists its months in ascending        *)
(* chronological order; each row's cumulative_contribution is the running   *)
(* sum of the year's monthly deposit totals, which withdrawals never        *)
(* reduce, and its room_remaining is max(0, total room of the year minus    *)
(* cumulative_contribution); room_remaining is never negative and never     *)
(* increases from one month to the next.                                    *)

C13_MonthlySummary ==
    \A y \in C13_Years :
        LET s == C13_Summary(y)
        IN  /\ \A k \in 1..(Len(s) - 1) :
                   /\ C13_MonthOf(s[k].month) < C13_MonthOf(s[k + 1].month)
                   /\ s[k + 1].room_remaining <= s[k].room_remaining
                   /\ s[k + 1].cumulative_contribution
                          = s[k].cumulative_contribution + s[k + 1].deposits_total
            /\ \A k \in 1..Len(s) :
                   /\ s[k].cumulative_contribution
                          = C13_DepositsUpTo(transactions, y, C13_MonthOf(s[k].month))
                   /\ s[k].room_remaining
                          = Max0(C13_TotalRoom(y) - s[k].cumulative_contribution)
                   /\ s[k].room_remaining >= 0
            /\ Len(s) > 0 => s[1].cumulative_contribution = s[1].deposits_total

\* Two months of 2025, a deposit in each and a withdrawal in the second: the
\* room goes down and the withdrawal does not bring it back.
C13_Witness ==
    LET s == C13_Summary(2025)
    IN  /\ Len(s) = 2
        /\ s[1].deposits_total > 0
        /\ s[2].deposits_total > 0
        /\ s[2].withdrawals_total > 0
        /\ s[2].room_remaining < s[1].room_remaining
        /\ s[2].cumulative_contribution = deposits_in_year(transactions, 2025)

----------------------------------------------------------------------------
(* C14: an accepted commit appends exactly one record at the end of the    *)
(* log, holding the proposed date, kind and amount and the id the counter  *)
(* had before the call; the counter goes up by one and the records stored  *)
(* before are unchanged and keep their places.                             *)

C14_AcceptedAppendsOne ==
    [][ (last'.op = "submit" /\ last'.outcome = "accepted")
            => /\ Len(transactions') = Len(transactions) + 1
               /\ \A i \in 1..Len(transactions) : transactions'[i] = transactions[i]
               /\ LET rec == transactions'[Len(transactions')]
                  IN  /\ rec.id = next_id
                      /\ to_datetime(rec.date) = last'.date
                      /\ rec.type = last'.kind
                      /\ rec.amount = last'.amount
                      /\ DOMAIN rec = {"id", "date", "type", "amount"}
               /\ next_id' = next_id + 1
      ]_vars

\* A withdrawal was just accepted behind two older records.
C14_Witness ==
    /\ last.op = "submit"
    /\ last.outcome = "accepted"
    /\ last.kind = "withdrawal"
    /\ Len(transactions) = 3
    /\ transactions[3].id = next_id - 1
    /\ transactions[3].type = "withdrawal"
    /\ transactions[3].amount = last.amount

----------------------------------------------------------------------------
(* A session whose estimator widgets were set once and are left alone: the *)
(* ledger is then worked on under one configuration.                       *)

\* birth dates with first eligible years 2009, 2025 and 2028
FixedDobs == Dobs \cup {<<2010, 3, 1>>}

FixedConfigurations ==
    [ever_contributed : {"No"}, carryover_manual : {0}, dob : FixedDobs]
        \cup [ever_contributed : {"Yes"}, carryover_manual : CarryoverChoices,
              dob : {DobDefault}]

InitFixed ==
    /\ transactions = <<>>
    /\ next_id = 1
    /\ confirming_clear = FALSE
    /\ clear_click_guard = FALSE
    /\ \E c \in FixedConfigurations :
           /\ ever_contributed = c.ever_contributed
           /\ carryover_manual = c.carryover_manual
           /\ dob = c.dob
    /\ type_input = "deposit"
    /\ amount_input = 0
    /\ today \in Todays
    /\ issued = <<>>
    /\ last = Rendered("configure")

NextFixed ==
    \/ \E t_date \in FormDates, kind \in Kinds, t_amount \in FormAmounts :
           Submit(t_date, kind, t_amount)
    \/ Bomb
    \/ ConfirmYes
    \/ ConfirmNo
    \/ \E id \in 1..MaxTxns : Delete(id)

SpecFixed == InitFixed /\ [][NextFixed]_vars

----------------------------------------------------------------------------
\* The years a stored record can be dated in, other than the current one.
C15_OtherYears == (2000..2030) \ {current_year}

(* C15: with the birth date, the mode, the declared carryover and the      *)
(* current year held fixed, every log reachable by commits, deletes and    *)
(* clear-all is legal: every stored amount is above zero, the deposits of  *)
(* the current year are at most carryover_basis + limit_for(current year), *)
(* and the deposits of any other year are at most that year's limit.       *)

C15_LegalLog ==
    /\ \A i \in 1..Len(transactions) : transactions[i].amount > 0
    /\ deposits_in_year(transactions, current_year)
           <= carryover_basis + limit_for(current_year)
    /\ \A y \in C15_OtherYears : deposits_in_year(transactions, y) <= limit_for(y)

\* Both the current year and a backdated year are filled to their bounds.
C15_Witness ==
    /\ deposits_in_year(transactions, current_year)
           = carryover_basis + limit_for(current_year)
    /\ deposits_in_year(transactions, current_year) > 0
    /\ deposits_in_year(transactions, current_year - 1) = limit_for(current_year - 1)
    /\ last.op = "submit"
    /\ last.outcome = "accepted"

\* A log that stays legal across a delete.
C15_WitnessDelete ==
    /\ last.op = "delete"
    /\ deposits_in_year(transactions, current_year) > 0

(* C16: in the never-contributed mode the deposits stored for all years    *)
(* together never exceed room_from_inception(birth date, current year).    *)

C16_TotalWithinInceptionRoom ==
    ever_contributed = "No"
        => TotalOf(transactions, "deposit", AllYears)
               <= room_from_inception(dob, current_year)

(* C17: a deposit with an amount above zero is accepted only if the year   *)
(* it is dated in is not before the first eligible year of the birth date, *)
(* for the current year and for a backdated year alike.                    *)

C17_NoDepositBeforeEligibility ==
    [][ (AddedPositive("deposit") /\ last'.outcome = "accepted")
            => Year(last'.date) >= first_eligible_year(dob) ]_vars

----------------------------------------------------------------------------
(* C18: for every birth date, mode and declared carryover the estimator's  *)
(* total (estimated_room_total) equals the breakdown's total               *)
(* (total_room_this_year), both equal carryover_basis + limit_for(current   *)
(* year), and carryover_basis is not negative.                             *)

C18_TotalsAgree ==
    /\ estimated_room_total = total_room_this_year
    /\ estimated_room_total = carryover_basis + limit_for(current_year)
    /\ total_room_this_year = carryover_prior + current_year_limit(current_year)
    /\ carryover_prior = carryover_basis
    /\ carryover_basis >= 0

(* C19: the log is emptied by clear-all only in a step taken while         *)
(* confirming_clear is true, which only the clear button sets; "No" leaves  *)
(* the log and the id counter as they were; after either answer            *)
(* confirming_clear and clear_click_guard are both false.                  *)

C19_ClearNeedsConfirmation ==
    [][ /\ last'.op = "confirm_yes" => (confirming_clear /\ transactions' = <<>>)
        /\ (Len(transactions) > 1 /\ transactions' = <<>>)
               => (confirming_clear /\ last'.op = "confirm_yes")
        /\ (transactions # <<>> /\ transactions' = <<>>)
               => (last'.op = "delete" \/ (confirming_clear /\ last'.op = "confirm_yes"))
        /\ (~confirming_clear /\ confirming_clear') => last'.op = "bomb"
        /\ last'.op = "confirm_no"
               => (confirming_clear /\ transactions' = transactions /\ next_id' = next_id)
        /\ last'.op \in {"confirm_yes", "confirm_no"}
               => (~confirming_clear' /\ ~clear_click_guard')
      ]_vars

\* "No" was just answered over a log of two records, which is still there.
C19_Witness ==
    /\ last.op = "confirm_no"
    /\ Len(transactions) = 2
    /\ ~confirming_clear
    /\ ~clear_click_guard

\* "Yes" was just answered and emptied a log of two records.
C19_WitnessYes ==
    /\ last.op = "confirm_yes"
    /\ last.count = 2
    /\ transactions = <<>>
    /\ ~confirming_clear

====
